---- MODULE Spec2Model ----
(***************************************************************************)
(* A model of the two command line tools of the repository:                *)
(*   - src/src/pg_tool/cli.py : DatabaseClient, InteractiveShell, run_cli  *)
(*     (psycopg 3), specification Spec;                                    *)
(*   - src/pgtool/db.py       : DatabaseConnection (psycopg2),             *)
(*     specification SpecSession.                                          *)
(* The database driver is outside the repository: it is modelled by the    *)
(* Drv* operators (a connection with PostgreSQL's transaction states and   *)
(* one destination table), each called where the source calls the driver.  *)
(***************************************************************************)
EXTENDS Integers, Sequences, FiniteSets, TLC

VARIABLES
    db,         \* pg_tool: the psycopg connection held by DatabaseClient, with the server-side table
    shell,      \* pg_tool: state of InteractiveShell.cmdloop
    exited,     \* pg_tool: run_cli has returned (or died with a traceback)
    exitCode,   \* pg_tool: the process exit status once exited
    exported,   \* pg_tool: content of the CSV file written by export_table
    last,       \* pg_tool: what the last input line / invocation did (observation)
    connection, \* pgtool: DatabaseConnection._connection (0 models None)
    handles,    \* pgtool: every connection psycopg2.connect has established
    srvRows,    \* pgtool: number of committed rows of the server table
    ret,        \* pgtool: what the last call on the DatabaseConnection did (observation)
    cfg,        \* the configuration an invocation built (observation)
    stream      \* pgtool: the generator of DatabaseConnection.iter_query

vars == <<db, shell, exited, exitCode, exported, last, connection, handles, srvRows, ret,
          cfg, stream>>

cliVars == <<db, shell, exited, exitCode, exported, last>>
sessVars == <<connection, handles, srvRows, ret>>

----------------------------------------------------------------------------
(* Bounds of the model *)

MaxCsvRows == 2
MaxTableRows == 2
MaxCursors == 2

----------------------------------------------------------------------------
(* Values *)

\* Python's None, as a cell of a row
None == "<None>"

\* the columns of the one destination table, public.t
Cols == <<"c1", "c2">>

PublicT == [schema |-> <<"public">>, name |-> <<"t">>]

\* a second table, public.e, that has no column (and so no row)
EmptyT == [schema |-> <<"public">>, name |-> <<"e">>]

NoTable == [schema |-> <<>>, name |-> <<>>]

\* a cell the server refuses (type mismatch, constraint violation)
BadCell == "bad"

Range(s) == {s[i] : i \in DOMAIN s}

SeqsUpTo(S, n) == UNION {[1..k -> S] : k \in 0..n}

IndexOf(s, x) == CHOOSE i \in DOMAIN s : s[i] = x

----------------------------------------------------------------------------
(* The psycopg 3 driver and the server behind it, as pg_tool uses them.     *)
(* A call returns [db, exc, val]: the connection afterwards, the exception  *)
(* raised ("none" when the call returned) and the value returned.           *)

NoExc == "none"
PsycopgError == "psycopg.Error"
StopIteration == "StopIteration"
OSError == "OSError"

Ret(d, exc, val) == [db |-> d, exc |-> exc, val |-> val]

NoResult == [description |-> <<>>, rows |-> <<>>]

\* psycopg.connect(**kwargs) followed by connection.autocommit = config.autocommit
DrvConnect(autocommit, rows) ==
    [open |-> TRUE, autocommit |-> autocommit, tx |-> "IDLE",
     committed |-> rows, working |-> rows, cursors |-> 0, stale |-> FALSE,
     stmts |-> 0, commits |-> 0, connects |-> 1]

\* The row an INSERT (columns) VALUES (values) stores: absent columns are NULL
StoredRow(columns, values) ==
    [i \in DOMAIN Cols |->
        IF Cols[i] \in Range(columns) THEN values[IndexOf(columns, Cols[i])] ELSE None]

\* The server's answer to one statement on the table content `rows`
ServerApply(rows, stmt) ==
    CASE stmt.kind = "catalog" ->
            [ok |-> TRUE, rows |-> rows, description |-> <<"name">>, result |-> <<>>]
      [] stmt.kind = "select" ->
            IF stmt.table = PublicT
            THEN [ok |-> TRUE, rows |-> rows, description |-> Cols, result |-> rows]
            ELSE IF stmt.table = EmptyT
            THEN [ok |-> TRUE, rows |-> rows, description |-> <<>>, result |-> <<>>]
            ELSE [ok |-> FALSE, rows |-> rows, description |-> <<>>, result |-> <<>>]
      [] stmt.kind = "truncate" ->
            IF stmt.table = PublicT
            THEN [ok |-> TRUE, rows |-> <<>>, description |-> <<>>, result |-> <<>>]
            ELSE [ok |-> FALSE, rows |-> rows, description |-> <<>>, result |-> <<>>]
      [] stmt.kind = "insert" ->
            IF /\ stmt.table = PublicT
               /\ stmt.columns # <<>>
               /\ Range(stmt.columns) \subseteq Range(Cols)
               /\ Cardinality(Range(stmt.columns)) = Len(stmt.columns)
               /\ BadCell \notin Range(stmt.values)
            THEN [ok |-> TRUE, rows |-> Append(rows, StoredRow(stmt.columns, stmt.values)),
                  description |-> <<>>, result |-> <<>>]
            ELSE [ok |-> FALSE, rows |-> rows, description |-> <<>>, result |-> <<>>]
      [] OTHER ->
            [ok |-> FALSE, rows |-> rows, description |-> <<>>, result |-> <<>>]

\* connection.cursor(): a new open cursor; refused on a closed connection
DrvCursor(d) ==
    IF ~d.open THEN Ret(d, PsycopgError, NoResult)
    ELSE Ret([d EXCEPT !.cursors = @ + 1], NoExc, NoResult)

\* cursor.close(), also the exit of "with cursor"
DrvCursorClose(d) == [d EXCEPT !.cursors = IF @ > 0 THEN @ - 1 ELSE 0]

\* The placeholders of the statement do not match the parameters passed:
\* psycopg raises ProgrammingError before anything is sent to the server
ParamMismatch(stmt) == stmt.kind = "insert" /\ Len(stmt.values) # Len(stmt.columns)

\* The outcome of cursor.execute given the server's answer r
ExecuteOutcome(d, started, stmt, r) ==
    IF ~d.open THEN Ret(d, PsycopgError, NoResult)
    ELSE IF ParamMismatch(stmt) THEN Ret(started, PsycopgError, NoResult)
    ELSE IF d.tx = "INERROR" THEN Ret(started, PsycopgError, NoResult)
    ELSE IF ~r.ok
         THEN Ret([started EXCEPT !.tx = IF d.autocommit THEN "IDLE" ELSE "INERROR"],
                  PsycopgError, NoResult)
    ELSE IF d.autocommit
         THEN Ret([started EXCEPT !.working = r.rows, !.committed = r.rows], NoExc,
                  [description |-> r.description, rows |-> r.result])
    ELSE Ret([started EXCEPT !.working = r.rows, !.tx = "INTRANS"], NoExc,
             [description |-> r.description, rows |-> r.result])

\* cursor.execute(statement, params) on the cursor acquired last.
\* stale records that another cursor was still open when the statement began.
DrvExecute(d, stmt) ==
    ExecuteOutcome(d, [d EXCEPT !.stale = @ \/ d.cursors > 1, !.stmts = @ + 1], stmt,
                   ServerApply(d.working, stmt))

\* r when r raised, else what comes next
Then(r, Next(_)) == IF r.exc # NoExc THEN r ELSE Next(r)

\* cursor.executemany(statement, values): the statement once per parameter row,
\* in order, stopping at the first row that raises
RECURSIVE DrvExecuteMany(_, _, _)
DrvExecuteMany(d, stmt, values) ==
    IF values = <<>> THEN Ret(d, NoExc, NoResult)
    ELSE Then(DrvExecute(d, [stmt EXCEPT !.values = Head(values)]),
              LAMBDA one : DrvExecuteMany(one.db, stmt, Tail(values)))

\* The transaction of d ended by commit: a failed transaction is rolled back
Committed(d) ==
    IF d.tx = "INTRANS" THEN [d EXCEPT !.committed = d.working, !.tx = "IDLE"]
    ELSE IF d.tx = "INERROR" THEN [d EXCEPT !.working = d.committed, !.tx = "IDLE"]
    ELSE d

\* connection.commit()
DrvCommit(d) ==
    IF ~d.open THEN Ret(d, PsycopgError, NoResult)
    ELSE Ret(Committed([d EXCEPT !.commits = @ + 1]), NoExc, NoResult)

\* The counters of one operation (statements begun, commits issued) start at 0
BeginOp(d) == [d EXCEPT !.stmts = 0, !.commits = 0]

\* connection.close(): an open transaction is rolled back by the server
DrvClose(d) ==
    IF ~d.open THEN d
    ELSE [d EXCEPT !.open = FALSE, !.working = d.committed, !.tx = "IDLE"]

----------------------------------------------------------------------------
(* src/src/pg_tool/cli.py: table names and DatabaseClient *)

\* A table name is a sequence of tokens; "." is the separator.
Dot == "."

RECURSIVE SplitAt(_, _)
\* str.split(".", 1) of a name that holds a separator: the part before the
\* first separator and all that follows it
SplitAt(name, acc) ==
    IF Head(name) = Dot THEN [schema |-> acc, name |-> Tail(name)]
    ELSE SplitAt(Tail(name), Append(acc, Head(name)))

\* a _parse_table_name that looks every name up in schema public
parse_table_name_public(table) ==
    [schema |-> <<"public">>,
     name |-> IF Dot \in Range(table) THEN SplitAt(table, <<>>).name ELSE table]

_parse_table_name(table) ==
    IF Dot \in Range(table) THEN SplitAt(table, <<>>)
    ELSE [schema |-> <<"public">>, name |-> table]

\* a close that leaves the connection as it is
close_nothing(d) == d

\* DatabaseClient.close
DatabaseClient_close(d) == DrvClose(d)

\* DatabaseClient.execute: the cursor is returned open; when cur.execute
\* raises, nothing closes the cursor acquired on the line before
DatabaseClient_execute(d, stmt) ==
    Then(DrvCursor(d), LAMBDA cur : DrvExecute(cur.db, stmt))

\* The exit of a with block on a cursor: closes it, the outcome is the body's
WithExit(r) == Ret(DrvCursorClose(r.db), r.exc, r.val)

\* DatabaseClient.list_tables
DatabaseClient_list_tables(d, schema) ==
    Then(DatabaseClient_execute(d, [kind |-> "catalog"]),
         LAMBDA e : WithExit(Ret(e.db, NoExc,
                        IF schema \in {None, "public"} THEN <<"public.t">> ELSE <<>>)))

\* DatabaseClient.describe_table
DatabaseClient_describe_table(d, table) ==
    Then(DatabaseClient_execute(d, [kind |-> "catalog"]),
         LAMBDA e : WithExit(Ret(e.db, NoExc,
                        IF _parse_table_name(table) = PublicT THEN Cols ELSE <<>>)))

\* DatabaseClient.run_query
DatabaseClient_run_query(d, stmt) ==
    Then(DatabaseClient_execute(d, stmt),
         LAMBDA e : IF e.val.description = <<>>
                    THEN WithExit(Then(DrvCommit(e.db), LAMBDA c : Ret(c.db, NoExc, NoResult)))
                    ELSE WithExit(e))

\* A row of a cursor with row_factory=dict_row: a dict keyed by column name
dict_row(headers, row) == [keys |-> headers, vals |-> row]

\* csv.writer: str() of a value, None written as the empty string
CsvStr(v) == IF v = None THEN "" ELSE v

\* csv.writer.writerow(row): the row is iterated; iterating a dict gives its keys
csv_writerow(row) == [i \in DOMAIN row.keys |-> CsvStr(row.keys[i])]

\* The CSV file at a path: exists, and its records (the first is the header)
NoFile == [exists |-> FALSE, lines |-> <<>>]

\* The file export_table writes from the headers and the fetched rows
WrittenCsv(headers, rows) ==
    [exists |-> TRUE,
     lines |-> <<headers>> \o [i \in DOMAIN rows |-> csv_writerow(dict_row(headers, rows[i]))]]

\* The part of export_table after the with block, on the closed cursor
ExportWrite(d, res, file, writable) ==
    IF res.description = <<>> THEN Ret(d, NoExc, file)
    ELSE IF ~writable THEN Ret(d, OSError, file)
    ELSE Ret(d, NoExc, WrittenCsv(res.description, res.rows))

\* DatabaseClient.export_table; val is the file the path holds afterwards
DatabaseClient_export_table(d, table, file, writable) ==
    Then(DatabaseClient_execute(d, [kind |-> "select", table |-> _parse_table_name(table)]),
         LAMBDA e : ExportWrite(DrvCursorClose(e.db), e.val, file, writable))

\* A with block of import_csv: one statement on a cursor of its own
WithCursorExecute(d, stmt) ==
    Then(DrvCursor(d), LAMBDA cur : WithExit(DrvExecute(cur.db, stmt)))

\* A with block of import_csv: executemany on a cursor of its own
WithCursorExecuteMany(d, stmt, values) ==
    Then(DrvCursor(d), LAMBDA cur : WithExit(DrvExecuteMany(cur.db, stmt, values)))

\* import_csv once the file is read: truncate, executemany, commit
ImportRows(d, ref, headers, values, truncate) ==
    Then(IF truncate THEN WithCursorExecute(d, [kind |-> "truncate", table |-> ref])
         ELSE Ret(d, NoExc, NoResult),
         LAMBDA t :
            Then(WithCursorExecuteMany(t.db,
                    [kind |-> "insert", table |-> ref, columns |-> headers, values |-> <<>>],
                    values),
                 LAMBDA m :
                    Then(DrvCommit(m.db), LAMBDA c : Ret(c.db, NoExc, Len(values)))))

\* DatabaseClient.import_csv; val is the number of rows reported
DatabaseClient_import_csv(d, table, file, truncate) ==
    IF ~file.exists THEN Ret(d, OSError, 0)
    ELSE IF file.lines = <<>> THEN Ret(d, StopIteration, 0)
    ELSE ImportRows(d, _parse_table_name(table), Head(file.lines), Tail(file.lines), truncate)

----------------------------------------------------------------------------
(* src/src/pg_tool/cli.py: InteractiveShell.handle_command *)

\* handle_command without its except clause
CaughtNothing(exc) == FALSE

\* The except clause of handle_command: what it catches
Caught(exc) == exc = PsycopgError

\* What a command did: the connection and the export file afterwards, the
\* exception the client raised, what was printed, whether a client method ran
Done(d, file, exc, out, dispatched) ==
    [db |-> d, exported |-> file, exc |-> exc, out |-> out, dispatched |-> dispatched]

\* The outcome of a command that called a client method with outcome r
Called(r, file, out) ==
    Done(r.db, file, r.exc, IF r.exc = NoExc THEN out ELSE "none", TRUE)

\* An argument that names a path is modelled by the file at that path;
\* an export path is writable unless it lies in a missing directory
Writable(path) == path # "nodir/out.csv"

\* handle_command, cmd == "tables"
handle_tables(d, file, args) ==
    Called(DatabaseClient_list_tables(d, IF args # <<>> THEN args[1] ELSE None), file, "result")

\* The columns describe_table returned, printed
PrintColumns(r, file) ==
    Called(r, file, IF r.exc = NoExc /\ r.val = <<>> THEN "notfound" ELSE "result")

\* handle_command, cmd == "describe"
handle_describe(d, file, args) ==
    IF args = <<>> THEN Done(d, file, NoExc, "usage", FALSE)
    ELSE PrintColumns(DatabaseClient_describe_table(d, args[1]), file)

\* handle_command, cmd == "query"
handle_query(d, file, args) ==
    IF args = <<>> THEN Done(d, file, NoExc, "usage", FALSE)
    ELSE Called(DatabaseClient_run_query(d, args[1]), file, "result")

\* The outcome of export_table, whose value is the file written
Exported(r, file) == Called(r, IF r.exc = NoExc THEN r.val ELSE file, "result")

\* an export branch that only rejects fewer than two arguments
handle_export_extra_args(d, file, args) ==
    IF Len(args) < 2 THEN Done(d, file, NoExc, "usage", FALSE)
    ELSE Exported(DatabaseClient_export_table(d, args[1], file, Writable(args[2])), file)

\* handle_command, cmd == "export"
handle_export(d, file, args) ==
    IF Len(args) # 2 THEN Done(d, file, NoExc, "usage", FALSE)
    ELSE Exported(DatabaseClient_export_table(d, args[1], file, Writable(args[2])), file)

\* handle_command, cmd == "import"
handle_import(d, file, args) ==
    IF Len(args) < 2 THEN Done(d, file, NoExc, "usage", FALSE)
    ELSE Called(DatabaseClient_import_csv(d, args[1], args[2],
                    \E i \in 3..Len(args) : args[i] = "--truncate"),
                file, "result")

\* a try block whose last branch lists the tables instead of rejecting the
\* command name
handle_body_lists_tables(d, file, cmd, args) ==
    CASE cmd = "describe" -> handle_describe(d, file, args)
      [] cmd = "query" -> handle_query(d, file, args)
      [] cmd = "export" -> handle_export(d, file, args)
      [] cmd = "import" -> handle_import(d, file, args)
      [] OTHER -> handle_tables(d, file, <<>>)

\* The try block of handle_command
handle_body(d, file, cmd, args) ==
    CASE cmd = "tables" -> handle_tables(d, file, args)
      [] cmd = "describe" -> handle_describe(d, file, args)
      [] cmd = "query" -> handle_query(d, file, args)
      [] cmd = "export" -> handle_export(d, file, args)
      [] cmd = "import" -> handle_import(d, file, args)
      [] OTHER -> Done(d, file, NoExc, "unknown", FALSE)

\* The except clause of handle_command applied to the outcome b of the try
\* block: exc is the exception that leaves handle_command, raised the one
\* the client raised
Except(b) ==
    [db |-> b.db, exported |-> b.exported, raised |-> b.exc,
     exc |-> IF Caught(b.exc) THEN NoExc ELSE b.exc,
     out |-> IF b.exc # NoExc /\ Caught(b.exc) THEN "error" ELSE b.out,
     dispatched |-> b.dispatched]

\* The connection after an except clause that opens a new one
Reconnected(d, h) ==
    IF h.raised = NoExc THEN h
    ELSE [h EXCEPT !.db = [DrvConnect(d.autocommit, h.db.committed)
                              EXCEPT !.connects = d.connects + 1]]

\* a handle_command that replaces the connection after an error
handle_command_reconnects(d, file, cmd, args) ==
    Reconnected(d, Except(handle_body(BeginOp(d), file, cmd, args)))

\* InteractiveShell.handle_command
handle_command(d, file, cmd, args) == Except(handle_body(BeginOp(d), file, cmd, args))

----------------------------------------------------------------------------
(* Inputs of the model *)

TableNames == {<<"t">>, <<"public", Dot, "t">>, <<"s", Dot, "t">>}

HeaderChoices == {<<>>, Cols}

DataChoices == {<<"a">>, <<"a", "a">>, <<"a", BadCell>>}

\* The CSV files an import may be pointed at: a missing path, an empty
\* file, and a header followed by up to MaxCsvRows records
CsvInputs ==
    {NoFile, [exists |-> TRUE, lines |-> <<>>]} \cup
    {[exists |-> TRUE, lines |-> <<h>> \o v] :
        h \in HeaderChoices, v \in SeqsUpTo(DataChoices, MaxCsvRows)}

\* The statements a query command may carry
SqlInputs ==
    {[kind |-> "select", table |-> PublicT],
     [kind |-> "insert", table |-> PublicT, columns |-> Cols, values |-> <<"a", "a">>],
     [kind |-> "truncate", table |-> PublicT],
     [kind |-> "syntax error"]}

\* The rows a command can add to the table
Adds(cmd, args) ==
    CASE cmd = "query" /\ args # <<>> /\ args[1].kind = "insert" -> 1
      [] cmd = "import" /\ Len(args) >= 2 /\ args[2].lines # <<>> -> Len(args[2].lines) - 1
      [] OTHER -> 0

\* The shape of the CSV file of an import, for the observation
CsvShape(file) ==
    IF ~file.exists THEN "absent"
    ELSE IF file.lines = <<>> THEN "no header"
    ELSE IF Head(file.lines) = <<>> THEN "empty header"
    ELSE IF \E i \in 2..Len(file.lines) : Len(file.lines[i]) # Len(file.lines[1])
         THEN "field count"
    ELSE "regular"

\* The input lines that reach handle_command, as a command and its arguments
CommandLines(exp) ==
    {<<"tables", a>> : a \in {<<>>, <<"public">>, <<"s">>}} \cup
    {<<"describe", a>> : a \in {<<>>} \cup {<<t>> : t \in TableNames}} \cup
    {<<"query", a>> : a \in {<<>>} \cup {<<q>> : q \in SqlInputs}} \cup
    {<<"export", a>> : a \in {<<>>} \cup {<<t>> : t \in TableNames}
                                 \cup {<<t, p>> : t \in TableNames, p \in {"out.csv", "nodir/out.csv"}}
                                 \cup {<<<<"e">>, "out.csv">>}
                                 \cup {<<<<"t">>, "out.csv", "extra">>}} \cup
    {<<"import", a>> : a \in {<<>>} \cup {<<t>> : t \in TableNames}
                                 \cup {<<<<"t">>, f>> \o fl : f \in CsvInputs \cup {exp},
                                                             fl \in {<<>>, <<"--truncate">>}}
                                 \cup {<<<<"s", Dot, "t">>, f>> \o fl :
                                            f \in {[exists |-> TRUE, lines |-> <<Cols, <<"a", "a">>>>]},
                                            fl \in {<<>>, <<"--truncate">>}}} \cup
    {<<"bogus", <<>>>>}

\* What the last line did, for the properties
Observe(cmd, args, d, h) ==
    [cmd |-> cmd, raised |-> h.raised, exc |-> h.exc, out |-> h.out,
     dispatched |-> h.dispatched,
     before |-> d.committed,
     truncate |-> cmd = "import" /\ \E i \in 3..Len(args) : args[i] = "--truncate",
     shape |-> IF cmd = "import" /\ Len(args) >= 2 THEN CsvShape(args[2]) ELSE "none",
     table |-> IF cmd \in {"export", "import"} /\ Len(args) >= 2
               THEN _parse_table_name(args[1]) ELSE NoTable,
     source |-> cmd = "import" /\ Len(args) >= 2 /\ exported.exists /\ args[2] = exported,
     name |-> IF cmd = "describe" /\ args # <<>> THEN args[1] ELSE <<>>,
     nargs |-> Len(args),
     usable |-> d.open /\ d.tx # "INERROR"]

NoObservation ==
    [cmd |-> "none", raised |-> NoExc, exc |-> NoExc, out |-> "none", dispatched |-> FALSE,
     before |-> <<>>, truncate |-> FALSE, shape |-> "none", table |-> NoTable,
     source |-> FALSE, name |-> <<>>, nargs |-> 0, usable |-> FALSE]

----------------------------------------------------------------------------
(* src/pgtool/db.py: DatabaseConnection over psycopg2.                     *)
(* A session is [connection, handles, srvRows, stmts, done, commits]: the   *)
(* field _connection (an index into handles, 0 for None), the connections  *)
(* psycopg2.connect has established, the committed rows of the server      *)
(* table, and the statements begun, the statements completed and the       *)
(* commits issued by the operation under way.                              *)

MaxHandles == 3
MaxSrvRows == 2

\* self._connection = None
NoConnection == 0

Psycopg2Error == "psycopg2.Error"
ValueError == "ValueError"

\* The outcome of a call on a session: the session afterwards, the exception
\* raised and the value returned
SRet(s, exc, val) == [s |-> s, exc |-> exc, val |-> val]

NoRows == [columns |-> <<>>, rows |-> <<>>]

\* What psycopg2.connect returns: an open connection, no transaction begun
NewHandle ==
    [open |-> TRUE, tx |-> "IDLE", pending |-> 0, cursors |-> 0, closes |-> 0]

\* DatabaseConnection.connect; up: the server accepts a connection
DatabaseConnection_connect(s, up) ==
    IF s.connection = NoConnection
    THEN IF up
         THEN SRet([s EXCEPT !.handles = Append(@, NewHandle),
                             !.connection = Len(s.handles) + 1], NoExc, NoRows)
         ELSE SRet(s, Psycopg2Error, NoRows)
    ELSE SRet(s, NoExc, NoRows)

\* psycopg2's connection.close(): the open transaction is rolled back
HandleClose(h) ==
    [h EXCEPT !.open = FALSE, !.tx = "IDLE", !.pending = 0, !.closes = @ + 1]

\* DatabaseConnection.close that keeps self._connection
close_keeps_handle(s) ==
    IF s.connection # NoConnection
    THEN [s EXCEPT !.handles[s.connection] = HandleClose(@)]
    ELSE s

\* DatabaseConnection.close
DatabaseConnection_close(s) ==
    IF s.connection # NoConnection
    THEN [s EXCEPT !.handles[s.connection] = HandleClose(@), !.connection = NoConnection]
    ELSE s

\* connection.cursor() and cursor.close() on the handle of the session
CursorOpen(s) == [s EXCEPT !.handles[s.connection].cursors = @ + 1]
CursorClose(s) == [s EXCEPT !.handles[s.connection].cursors = @ - 1]

\* The rows a SELECT on the table returns: one per visible row
TableRows(n) == [i \in 1..n |-> <<i>>]

\* cursor.execute on the handle of the session (psycopg2 begins a
\* transaction with the first statement; a server error fails it)
Handle_execute(s, stmt) ==
    LET h == s.handles[s.connection]
        began == [s EXCEPT !.stmts = @ + 1]
    IN  IF ~h.open \/ h.tx = "INERROR" THEN SRet(began, Psycopg2Error, NoRows)
        ELSE IF stmt = "bad"
             THEN SRet([began EXCEPT !.handles[s.connection].tx = "INERROR"], Psycopg2Error, NoRows)
        ELSE IF stmt = "insert"
             THEN SRet([began EXCEPT !.done = @ + 1,
                                     !.handles[s.connection].tx = "INTRANS",
                                     !.handles[s.connection].pending = @ + 1], NoExc, NoRows)
        ELSE SRet([began EXCEPT !.done = @ + 1, !.handles[s.connection].tx = "INTRANS"], NoExc,
                  [columns |-> IF stmt = "select" THEN <<"c1">> ELSE <<"name">>,
                   rows |-> IF stmt = "select" THEN TableRows(s.srvRows + h.pending) ELSE <<>>])

\* connection.commit() on the handle of the session
Handle_commit(s) ==
    LET h == s.handles[s.connection]
    IN  IF ~h.open THEN SRet(s, Psycopg2Error, NoRows)
        ELSE SRet([s EXCEPT !.commits = @ + 1,
                            !.srvRows = IF h.tx = "INTRANS" THEN @ + h.pending ELSE @,
                            !.handles[s.connection].tx = "IDLE",
                            !.handles[s.connection].pending = 0], NoExc, NoRows)

\* The finally clause of DatabaseConnection.cursor
CursorExit(r) == SRet(CursorClose(r.s), r.exc, r.val)

\* DatabaseConnection.cursor around the body of a with block
DatabaseConnection_cursor(s, up, Body(_)) ==
    Then(DatabaseConnection_connect(s, up), LAMBDA c : CursorExit(Body(CursorOpen(c.s))))

\* self.connect().commit()
ConnectCommit(s, up) ==
    Then(DatabaseConnection_connect(s, up), LAMBDA c : Handle_commit(c.s))

\* lines of run_query that commit whatever fetch is
fetched_always_commits(e, up, fetch) ==
    Then(ConnectCommit(e.s, up),
         LAMBDA c : SRet(c.s, NoExc, IF fetch THEN e.val ELSE NoRows))

\* The lines of run_query after cursor.execute returned e
Fetched(e, up, fetch) ==
    IF fetch THEN e
    ELSE Then(ConnectCommit(e.s, up), LAMBDA c : SRet(c.s, NoExc, NoRows))

\* run_query that commits when fetch is set instead of when it is not
run_query_commit_on_fetch(s, up, stmt, fetch) ==
    DatabaseConnection_cursor(s, up,
        LAMBDA o : Then(Handle_execute(o, stmt),
                        LAMBDA e : IF fetch THEN ConnectCommit(e.s, up) ELSE e))

\* DatabaseConnection.run_query
DatabaseConnection_run_query(s, up, stmt, fetch) ==
    DatabaseConnection_cursor(s, up,
        LAMBDA o : Then(Handle_execute(o, stmt), LAMBDA e : Fetched(e, up, fetch)))

\* The order of the names of the model, as the server sorts text
NameOrder == <<"a", "b", "information_schema", "pg_catalog", "public", "v">>

\* ORDER BY table_schema, table_name on two rows (schema, table)
RowLeq(x, y) ==
    \/ IndexOf(NameOrder, x[1]) < IndexOf(NameOrder, y[1])
    \/ x[1] = y[1] /\ IndexOf(NameOrder, x[2]) <= IndexOf(NameOrder, y[2])

RECURSIVE OrderBy(_)
OrderBy(S) ==
    IF S = {} THEN <<>>
    ELSE LET first == CHOOSE x \in S : \A y \in S : RowLeq(x, y)
         IN  <<first>> \o OrderBy(S \ {first})

\* a list_tables whose filter is empty whatever include_system is
no_schema_filter(include_system, schema) == TRUE

\* list_tables: the schema_filter of the query, on the schema of a row
schema_filter(include_system, schema) ==
    include_system \/ schema \notin {"pg_catalog", "information_schema"}

\* The rows the server answers the query of list_tables with, on the
\* relations `catalog` of information_schema.tables
ServerTables(catalog, include_system) ==
    OrderBy({<<e.schema, e.name>> :
                e \in {c \in catalog : /\ c.type = "BASE TABLE"
                                        /\ schema_filter(include_system, c.schema)}})

\* DatabaseConnection.list_tables
DatabaseConnection_list_tables(s, up, include_system, catalog) ==
    Then(DatabaseConnection_run_query(s, up, "catalog", TRUE),
         LAMBDA r : SRet(r.s, NoExc,
                         [columns |-> <<"table_schema", "table_name">>,
                          rows |-> ServerTables(catalog, include_system)]))

\* The fields of a text split at the separator
RECURSIVE Fields(_, _)
Fields(text, field) ==
    IF text = <<>> THEN <<field>>
    ELSE IF Head(text) = Dot THEN <<field>> \o Fields(Tail(text), <<>>)
    ELSE Fields(Tail(text), Append(field, Head(text)))

\* split_part(text, '.', n) of PostgreSQL
split_part(text, n) == IF n <= Len(Fields(text, <<>>)) THEN Fields(text, <<>>)[n] ELSE <<>>

\* The rows the server answers the query of describe_table with: one per
\* column of the table, none for a table it does not have
ServerColumns(schema_table) ==
    IF [schema |-> split_part(schema_table, 1), name |-> split_part(schema_table, 2)] = PublicT
    THEN [i \in DOMAIN Cols |-> <<Cols[i]>>]
    ELSE <<>>

\* DatabaseConnection.describe_table
DatabaseConnection_describe_table(s, up, table) ==
    Then(DatabaseConnection_run_query(s, up, "catalog", TRUE),
         LAMBDA r : SRet(r.s, NoExc,
                         [columns |-> <<"column_name">>,
                          rows |-> ServerColumns(IF Dot \in Range(table) THEN table
                                                 ELSE <<"public", Dot>> \o table)]))

\* DatabaseConnection.export_to_csv
DatabaseConnection_export_to_csv(s, up, stmt) ==
    Then(DatabaseConnection_run_query(s, up, stmt, TRUE),
         LAMBDA r : IF r.val.columns = <<>> THEN SRet(r.s, ValueError, NoRows) ELSE r)

\* an execute_script that commits whether or not the statement raised
execute_script_always_commits(s, up, stmt) ==
    ConnectCommit(DatabaseConnection_cursor(s, up, LAMBDA o : Handle_execute(o, stmt)).s, up)

\* DatabaseConnection.execute_script
DatabaseConnection_execute_script(s, up, stmt) ==
    Then(DatabaseConnection_cursor(s, up, LAMBDA o : Handle_execute(o, stmt)),
         LAMBDA e : ConnectCommit(e.s, up))

----------------------------------------------------------------------------
(* src/pgtool/config.py: DatabaseConfig, load_config, merge_configs.        *)
(* A call returns [exc, val].  A string field that is not set is None; the   *)
(* port is an integer, NoPort when it is not set.  An options map is a       *)
(* function from its keys to their values.                                   *)

\* port: Optional[int] = None
NoPort == -1

CRet(exc, val) == [exc |-> exc, val |-> val]

\* options: Dict[str, str] = field(default_factory=dict)
NoOptions == [k \in {} |-> None]

\* DatabaseConfig(...) with the defaults of the dataclass
EmptyConfig ==
    [host |-> None, port |-> NoPort, user |-> None, password |-> None,
     database |-> None, dsn |-> None, options |-> NoOptions]

ScalarFields == {"host", "port", "user", "password", "database", "dsn"}

\* The value of a field that is not set
Unset(f) == IF f = "port" THEN NoPort ELSE None

\* Python's truth value of a field: None, "" and 0 are false
Truthy(f, v) == IF f = "port" THEN v # NoPort /\ v # 0 ELSE v # None /\ v # ""

\* a whole-map replacement in the place of {**a, **b}
DictReplace(a, b) == IF DOMAIN b # {} THEN b ELSE a

\* {**a, **b}
DictMerge(a, b) ==
    [k \in DOMAIN a \cup DOMAIN b |-> IF k \in DOMAIN b THEN b[k] ELSE a[k]]

\* DatabaseConfig.merged_with: other.f or self.f for every scalar field
merged_with(self, other) ==
    [f \in ScalarFields \cup {"options"} |->
        IF f = "options" THEN DictMerge(self.options, other.options)
        ELSE IF Truthy(f, other[f]) THEN other[f] ELSE self[f]]

\* merge_configs
RECURSIVE MergeFrom(_, _)
MergeFrom(merged, configs) ==
    IF configs = <<>> THEN merged
    ELSE MergeFrom(merged_with(merged, Head(configs)), Tail(configs))

merge_configs(configs) == MergeFrom(EmptyConfig, configs)

\* The keyword psycopg2.connect takes for a field
KwargName(f) == IF f = "database" THEN "dbname" ELSE f

\* a to_connect_kwargs that adds the dsn to the other parameters
kwargs_with_dsn(c) ==
    LET set == {f \in ScalarFields : c[f] # Unset(f)}
    IN  DictMerge([k \in {KwargName(f) : f \in set} |->
                      c[CHOOSE f \in set : KwargName(f) = k]],
                  c.options)

\* DatabaseConfig.to_connect_kwargs
to_connect_kwargs(c) ==
    IF Truthy("dsn", c.dsn) THEN [k \in {"dsn"} |-> c.dsn]
    ELSE LET set == {f \in ScalarFields \ {"dsn"} : c[f] # Unset(f)}
         IN  DictMerge([k \in {KwargName(f) : f \in set} |->
                           c[CHOOSE f \in set : KwargName(f) = k]],
                       c.options)

\* A port as a raw mapping holds it: absent, an integer (TOML, argparse) or
\* a string (environment)
RawNone == [kind |-> "none"]
RawInt(n) == [kind |-> "int", int |-> n]
RawStr(s) == [kind |-> "str", str |-> s]

\* str.isdigit and int() on the strings of the model
IsDigit(s) == s \in {"0", "6432"}
IntOf(s) == IF s = "0" THEN 0 ELSE 6432

\* x or None
OrNone(v) == IF v = "" THEN None ELSE v

\* DatabaseConfig.from_mapping; int() of a string that is no number raises
from_mapping(mapping) ==
    IF mapping.port.kind = "str" /\ ~IsDigit(mapping.port.str) THEN CRet(ValueError, EmptyConfig)
    ELSE CRet(NoExc,
              [host |-> OrNone(mapping.host),
               port |-> CASE mapping.port.kind = "str" -> IntOf(mapping.port.str)
                          [] mapping.port.kind = "int" -> mapping.port.int
                          [] OTHER -> NoPort,
               user |-> OrNone(mapping.user),
               password |-> OrNone(mapping.password),
               database |-> OrNone(mapping.database),
               dsn |-> OrNone(mapping.dsn),
               options |-> mapping.options])

\* DatabaseConfig.from_environment, from the mapping `data` it collects out
\* of the PGTOOL_ variables
from_environment(data) == from_mapping(data)

\* A raw mapping that sets nothing
NoMapping ==
    [host |-> None, port |-> RawNone, user |-> None, password |-> None,
     database |-> None, dsn |-> None, options |-> NoOptions]

\* The file at a path: missing, not TOML, TOML without a [database] table,
\* or TOML with the [database] table `database`
Missing == [kind |-> "missing"]
Invalid == [kind |-> "invalid"]
NoSection == [kind |-> "nosection"]
Toml(database) == [kind |-> "toml", database |-> database]

\* DEFAULT_CONFIG_LOCATIONS
DEFAULT_CONFIG_LOCATIONS == <<"pgtool.toml", "~/.pgtool.toml", "~/.config/pgtool/config.toml">>

\* The loop of load_config over the candidate paths
RECURSIVE LoadFrom(_, _)
LoadFrom(candidates, fs) ==
    IF candidates = <<>> THEN CRet(NoExc, EmptyConfig)
    ELSE LET file == fs[Head(candidates)]
         IN  IF file.kind = "missing" THEN LoadFrom(Tail(candidates), fs)
             ELSE IF file.kind \in {"invalid", "nosection"} THEN CRet(ValueError, EmptyConfig)
             ELSE from_mapping(file.database)

\* load_config; path is None when --config is not given
load_config(path, fs) ==
    LoadFrom(IF path # None THEN <<path>> ELSE DEFAULT_CONFIG_LOCATIONS, fs)

----------------------------------------------------------------------------
(* src/pgtool/cli.py: parse_options and build_config *)

\* A --option argument: KEY=VALUE, or a string without "="
Option(key, value) == [eq |-> TRUE, key |-> key, value |-> value]
BareOption == [eq |-> FALSE, key |-> "sslmode", value |-> ""]

\* parse_options: the pairs in order, a later one replacing an earlier key
RECURSIVE ParseFrom(_, _)
ParseFrom(parsed, options) ==
    IF options = <<>> THEN CRet(NoExc, parsed)
    ELSE IF ~Head(options).eq THEN CRet(ValueError, NoOptions)
    ELSE ParseFrom(DictMerge(parsed, [k \in {Head(options).key} |-> Head(options).value]),
                   Tail(options))

parse_options(options) == ParseFrom(NoOptions, options)

\* r when r raised, else what comes next
CThen(r, Next(_)) == IF r.exc # NoExc THEN r ELSE Next(r.val)

\* What build_config did: the three partial configs and their merge
Built(file, env, cli) ==
    [file |-> file, env |-> env, cli |-> cli, merged |-> merge_configs(<<file, env, cli>>)]

NotBuilt == Built(EmptyConfig, EmptyConfig, EmptyConfig)

\* build_config; args holds --config, the connection arguments and --option
build_config(args, fs, environ) ==
    CThen(load_config(args.config, fs), LAMBDA file :
        CThen(from_environment(environ), LAMBDA env :
            CThen(parse_options(args.option), LAMBDA option_mapping :
                CThen(from_mapping([args.mapping EXCEPT !.options = option_mapping]),
                      LAMBDA cli : CRet(NoExc, Built(file, env, cli))))))

----------------------------------------------------------------------------
(* src/src/pg_tool/cli.py: ConnectionConfig *)

\* ConnectionConfig.to_connection_kwargs: the dsn alone, else the fields
\* whose value is true
to_connection_kwargs(c) ==
    IF Truthy("dsn", c.dsn) THEN [k \in {"conninfo"} |-> c.dsn]
    ELSE [k \in {f \in {"host", "port", "dbname", "user", "password"} : Truthy(f, c[f])} |-> c[k]]

----------------------------------------------------------------------------
(* The calls on one DatabaseConnection (specification SpecSession) *)

\* The session as the operators take it
Session ==
    [connection |-> connection, handles |-> handles, srvRows |-> srvRows,
     stmts |-> 0, done |-> 0, commits |-> 0]

\* The session has been closed: the connection it established last is closed
SessionClosed == Len(handles) > 0 /\ ~handles[Len(handles)].open

\* The arguments of a call that the properties read, and for main the
\* status it returned
NoArgs ==
    [table |-> <<>>, include_system |-> FALSE, catalog |-> {}, command |-> "none",
     status |-> 0]

NoCall ==
    [op |-> "none", fetch |-> FALSE, stmt |-> "none", exc |-> NoExc, val |-> NoRows,
     afterClose |-> FALSE, noop |-> TRUE, executed |-> 0, done |-> 0, connected |-> FALSE,
     commits |-> 0, call |-> NoArgs]

InitSession ==
    /\ connection = NoConnection
    /\ handles = <<>>
    /\ srvRows = 0
    /\ ret = NoCall

\* The session after a call with outcome r and arguments call, and what
\* the call did
ReturnedWith(op, fetch, stmt, r, call) ==
    /\ connection' = r.s.connection
    /\ handles' = r.s.handles
    /\ srvRows' = r.s.srvRows
    /\ ret' = [op |-> op, fetch |-> fetch, stmt |-> stmt, exc |-> r.exc, val |-> r.val,
               afterClose |-> SessionClosed,
               noop |-> /\ r.s.connection = connection
                        /\ r.s.handles = handles
                        /\ r.s.srvRows = srvRows,
               executed |-> r.s.stmts, done |-> r.s.done,
               connected |-> Len(r.s.handles) > Len(handles),
               commits |-> r.s.commits, call |-> call]
    /\ UNCHANGED <<cliVars, cfg, stream>>

Returned(op, fetch, stmt, r) == ReturnedWith(op, fetch, stmt, r, NoArgs)

\* The relations information_schema.tables may list in the model
Relations ==
    {[schema |-> "public", name |-> "b", type |-> "BASE TABLE"],
     [schema |-> "public", name |-> "a", type |-> "BASE TABLE"],
     [schema |-> "public", name |-> "v", type |-> "VIEW"],
     [schema |-> "pg_catalog", name |-> "a", type |-> "BASE TABLE"],
     [schema |-> "information_schema", name |-> "b", type |-> "BASE TABLE"]}

\* The empty database, and the databases that lack at most one of them
Catalogs == {{}} \cup {c \in SUBSET Relations : Cardinality(c) >= Cardinality(Relations) - 1}

\* The calls the bounds of the model leave room for
CanConnect == connection # NoConnection \/ Len(handles) < MaxHandles

CanRun(stmt) ==
    stmt = "insert" =>
        srvRows + (IF connection = NoConnection THEN 0 ELSE handles[connection].pending)
            < MaxSrvRows

Statements == {"select", "insert", "bad"}

SessConnect ==
    /\ CanConnect
    /\ \E up \in BOOLEAN :
          Returned("connect", FALSE, "none", DatabaseConnection_connect(Session, up))

SessClose ==
    \E closed \in {DatabaseConnection_close(Session)} :
        Returned("close", FALSE, "none", SRet(closed, NoExc, NoRows))

SessRunQuery ==
    /\ CanConnect
    /\ \E up \in BOOLEAN, stmt \in Statements, fetch \in BOOLEAN :
          /\ CanRun(stmt)
          /\ Returned("run_query", fetch, stmt,
                      DatabaseConnection_run_query(Session, up, stmt, fetch))

SessListTables ==
    /\ CanConnect
    /\ \E up \in BOOLEAN, include_system \in BOOLEAN, catalog \in Catalogs :
          ReturnedWith("list_tables", TRUE, "catalog",
                       DatabaseConnection_list_tables(Session, up, include_system, catalog),
                       [NoArgs EXCEPT !.include_system = include_system, !.catalog = catalog])

SessDescribeTable ==
    /\ CanConnect
    /\ \E up \in BOOLEAN, table \in TableNames :
          ReturnedWith("describe_table", TRUE, "catalog",
                       DatabaseConnection_describe_table(Session, up, table),
                       [NoArgs EXCEPT !.table = table])

SessExportToCsv ==
    /\ CanConnect
    /\ \E up \in BOOLEAN, stmt \in Statements :
          /\ CanRun(stmt)
          /\ Returned("export_to_csv", TRUE, stmt,
                      DatabaseConnection_export_to_csv(Session, up, stmt))

SessExecuteScript ==
    /\ CanConnect
    /\ \E up \in BOOLEAN, stmt \in Statements :
          /\ CanRun(stmt)
          /\ Returned("execute_script", FALSE, stmt,
                      DatabaseConnection_execute_script(Session, up, stmt))

NextSession ==
    \/ SessConnect
    \/ SessClose
    \/ SessRunQuery
    \/ SessListTables
    \/ SessDescribeTable
    \/ SessExportToCsv
    \/ SessExecuteScript

----------------------------------------------------------------------------
(* Configuration of one invocation (specification SpecConfig) *)

\* ConnectionConfig.from_args; typed is what getpass returns
from_args(args, typed) ==
    [dsn |-> args.dsn, host |-> args.host, port |-> args.port, dbname |-> args.dbname,
     user |-> args.user,
     password |-> IF args.password = None /\ args.ask_password THEN typed ELSE args.password]

\* The [database] tables of a configuration file
FileMappings ==
    {[NoMapping EXCEPT !.host = h, !.port = p, !.dsn = d, !.options = o] :
        h \in {None, "a"}, p \in {RawNone, RawInt(5432)}, d \in {None, "file-dsn"},
        o \in {NoOptions, [k \in {"sslmode", "application_name"} |-> "x"]}}

\* The path given with --config, and the file systems of the model: no file
\* at all, or one file, at the given path or at a default location
GivenPath == "given.toml"
Paths == {GivenPath} \cup Range(DEFAULT_CONFIG_LOCATIONS)

FileSystems ==
    {[p \in Paths |-> Missing]} \cup
    {[p \in Paths |-> IF p = at THEN file ELSE Missing] :
        at \in {GivenPath, DEFAULT_CONFIG_LOCATIONS[2]},
        file \in {Invalid, NoSection} \cup {Toml(m) : m \in FileMappings}}

\* The mappings from_environment collects
Environments ==
    {[NoMapping EXCEPT !.host = h, !.port = p, !.options = o] :
        h \in {None, "b"}, p \in {RawNone, RawStr("0"), RawStr("x")},
        o \in {NoOptions, [k \in {"application_name"} |-> "y"]}}

\* The command lines of pgtool, as far as the configuration goes
ConfigArgs ==
    {[config |-> path,
      mapping |-> [NoMapping EXCEPT !.host = hd[1], !.database = hd[2], !.port = p, !.dsn = d],
      option |-> o] :
        path \in {None, GivenPath},
        hd \in {<<None, None>>, <<"c", None>>, <<None, "db">>},
        p \in {RawNone, RawInt(0), RawInt(5433)},
        d \in {None, "cli-dsn"},
        o \in {<<>>, <<Option("sslmode", "z")>>, <<BareOption>>}}

\* The command lines of pg_tool, as far as the connection goes
ConnectionArgs ==
    {[dsn |-> d, host |-> h, port |-> p, dbname |-> "postgres", user |-> u, password |-> pw,
      ask_password |-> ask] :
        d \in {None, "cli-dsn"}, h \in {"localhost", ""}, p \in {5432, 0},
        u \in {None, "u"}, pw \in {None, "p"}, ask \in BOOLEAN}

NoConfig ==
    [tool |-> "none", path |-> None, atPath |-> "none", defaults |-> {"missing"},
     loaded |-> NoExc, exc |-> NoExc,
     built |-> NotBuilt, config |-> EmptyConfig, kwargs |-> NoOptions]

InitConfig == cfg = NoConfig

\* What main has once build_config returned b: the configuration, and the
\* parameters DatabaseConnection.connect hands to psycopg2.connect
Configured(args, fs, b) ==
    cfg' = [tool |-> "pgtool", path |-> args.config,
            atPath |-> IF args.config = None THEN "none" ELSE fs[args.config].kind,
            defaults |-> {fs[p].kind : p \in Range(DEFAULT_CONFIG_LOCATIONS)},
            loaded |-> load_config(args.config, fs).exc,
            exc |-> b.exc,
            built |-> IF b.exc = NoExc THEN b.val ELSE NotBuilt,
            config |-> IF b.exc = NoExc THEN b.val.merged ELSE EmptyConfig,
            kwargs |-> IF b.exc = NoExc THEN to_connect_kwargs(b.val.merged) ELSE NoOptions]

\* pgtool's main up to the connection: build_config, then to_connect_kwargs
BuildConfig ==
    /\ cfg.tool = "none"
    /\ \E args \in ConfigArgs, fs \in FileSystems, environ \in Environments :
          Configured(args, fs, build_config(args, fs, environ))
    /\ UNCHANGED <<cliVars, sessVars, stream>>

\* pg_tool's run_cli up to the connection: from_args, then to_connection_kwargs
ConnectionKwargs ==
    /\ cfg.tool = "none"
    /\ \E args \in ConnectionArgs :
          cfg' = [NoConfig EXCEPT !.tool = "pg_tool",
                                  !.config = from_args(args, "typed"),
                                  !.kwargs = to_connection_kwargs(from_args(args, "typed"))]
    /\ UNCHANGED <<cliVars, sessVars, stream>>

NextConfig ==
    \/ BuildConfig
    \/ ConnectionKwargs

----------------------------------------------------------------------------
(* src/pgtool/db.py: DatabaseConnection.iter_query (specification           *)
(* SpecStream).  The generator is a process: pc is where it stands.         *)

MaxStreamRows == 4
MaxChunk == 3

\* cursor.fetchall() in the place of fetchmany
fetchall(cursorRows, size) == [batch |-> cursorRows, rest |-> <<>>]

\* cursor.fetchmany(size): the next rows of the cursor, at most size of them
fetchmany(cursorRows, size) ==
    LET n == IF Len(cursorRows) < size THEN Len(cursorRows) ELSE size
    IN  [batch |-> SubSeq(cursorRows, 1, n), rest |-> SubSeq(cursorRows, n + 1, Len(cursorRows))]

\* iter_query up to cursor.execute: the with block stays open while the
\* generator runs; its finally clause closes the cursor when execute raises
ExecuteOrExit(e) == IF e.exc # NoExc THEN CursorExit(e) ELSE e

iter_query_execute(s, up, stmt) ==
    Then(DatabaseConnection_connect(s, up),
         LAMBDA c : ExecuteOrExit(Handle_execute(CursorOpen(c.s), stmt)))

NoStream ==
    [pc |-> "idle", size |-> 1, rows |-> <<>>, cursorRows |-> <<>>, chunk |-> <<>>,
     idx |-> 0, yielded |-> <<>>, fetches |-> 0, exc |-> NoExc]

InitStream == stream = NoStream

\* The session after a step of the generator
StreamSession(s) ==
    /\ connection' = s.connection
    /\ handles' = s.handles
    /\ UNCHANGED <<srvRows, ret, cliVars, cfg>>

\* The generator once iter_query_execute ended with r on a statement whose
\* result is `result`
Started(size, result, r) ==
    /\ StreamSession(r.s)
    /\ stream' = IF r.exc # NoExc
                 THEN [NoStream EXCEPT !.pc = "failed", !.size = size, !.exc = r.exc]
                 ELSE [NoStream EXCEPT !.pc = "fetch", !.size = size, !.rows = result,
                                       !.cursorRows = result]

\* The first next() on the generator, up to cursor.execute
StreamExecute ==
    /\ stream.pc = "idle"
    /\ CanConnect
    /\ \E up \in BOOLEAN, stmt \in {"select", "bad"}, n \in 0..MaxStreamRows, size \in 1..MaxChunk :
          Started(size, TableRows(n),
                  iter_query_execute(Session, up, stmt))

\* chunk = cursor.fetchmany(chunk_size), a batch that holds rows
StreamFetch ==
    /\ stream.pc = "fetch"
    /\ fetchmany(stream.cursorRows, stream.size).batch # <<>>
    /\ stream' = [stream EXCEPT !.pc = "yield",
                                !.chunk = fetchmany(stream.cursorRows, stream.size).batch,
                                !.cursorRows = fetchmany(stream.cursorRows, stream.size).rest,
                                !.idx = 0,
                                !.fetches = @ + 1]
    /\ UNCHANGED <<cliVars, sessVars, cfg>>

\* chunk = cursor.fetchmany(chunk_size) is empty: break, the cursor is closed
StreamEnd ==
    /\ stream.pc = "fetch"
    /\ fetchmany(stream.cursorRows, stream.size).batch = <<>>
    /\ stream' = [stream EXCEPT !.pc = "done", !.chunk = <<>>, !.idx = 0, !.fetches = @ + 1]
    /\ StreamSession(CursorClose(Session))

\* yield row, for the next row of the chunk
StreamYield ==
    /\ stream.pc = "yield"
    /\ stream' = [stream EXCEPT !.yielded = Append(@, stream.chunk[stream.idx + 1]),
                                !.idx = @ + 1,
                                !.pc = IF stream.idx + 1 = Len(stream.chunk) THEN "fetch" ELSE "yield"]
    /\ UNCHANGED <<cliVars, sessVars, cfg>>

\* The consumer drops the generator after a row: GeneratorExit at the yield,
\* the cursor is closed
StreamClose ==
    /\ stream.pc \in {"fetch", "yield"}
    /\ stream.idx > 0
    /\ stream' = [stream EXCEPT !.pc = "closed"]
    /\ StreamSession(CursorClose(Session))

NextStream ==
    \/ StreamExecute
    \/ StreamFetch
    \/ StreamEnd
    \/ StreamYield
    \/ StreamClose

----------------------------------------------------------------------------
(* src/pgtool/cli.py: main and the handlers of its sub-commands *)

\* The SQL files of the model and the statement each holds
ScriptFiles == [path \in {"insert.sql", "bad.sql"} |->
                    IF path = "insert.sql" THEN "insert" ELSE "bad"]

\* Path(path).read_text(): raises OSError on a path that is no file
read_text(s, path) ==
    IF path \in DOMAIN ScriptFiles THEN SRet(s, NoExc, ScriptFiles[path])
    ELSE SRet(s, OSError, NoRows)

read_sql(s, sql, file_path) ==
    IF sql # None /\ file_path # None THEN SRet(s, ValueError, NoRows)
    ELSE IF sql # None THEN SRet(s, NoExc, sql)
    ELSE IF file_path # None THEN read_text(s, file_path)
    ELSE SRet(s, ValueError, NoRows)

\* handle_query of pgtool
pgtool_handle_query(s, up, args) ==
    Then(read_sql(s, args.sql, args.file),
         LAMBDA q : DatabaseConnection_run_query(q.s, up, q.val, ~args.no_fetch))

\* handle_tables of pgtool
pgtool_handle_tables(s, up, args) ==
    DatabaseConnection_list_tables(s, up, args.include_system, args.catalog)

\* handle_describe of pgtool
pgtool_handle_describe(s, up, args) ==
    DatabaseConnection_describe_table(s, up, args.table)

\* handle_export of pgtool
pgtool_handle_export(s, up, args) ==
    Then(read_sql(s, args.sql, args.file),
         LAMBDA q : DatabaseConnection_export_to_csv(q.s, up, q.val))

\* handle_script
handle_script(s, up, args) ==
    Then(read_text(s, args.path),
         LAMBDA q : DatabaseConnection_execute_script(q.s, up, q.val))

\* The body of the with block of main
main_command(s, up, args) ==
    CASE args.command = "query" -> pgtool_handle_query(s, up, args)
      [] args.command = "tables" -> pgtool_handle_tables(s, up, args)
      [] args.command = "describe" -> pgtool_handle_describe(s, up, args)
      [] args.command = "export" -> pgtool_handle_export(s, up, args)
      [] OTHER -> handle_script(s, up, args)

\* DatabaseConnection.__exit__ after a with block of outcome r
DatabaseConnection_exit(r) == SRet(DatabaseConnection_close(r.s), r.exc, r.val)

\* with DatabaseConnection(config) as db: __enter__ connects, and when it
\* raises there is no block and no __exit__
WithDatabaseConnection(s, up, args) ==
    Then(DatabaseConnection_connect(s, up),
         LAMBDA c : DatabaseConnection_exit(main_command(c.s, up, args)))

\* main from build_config on; built is the outcome of build_config
main(s, up, args, built) ==
    IF built.exc # NoExc THEN SRet(s, built.exc, NoRows)
    ELSE WithDatabaseConnection(s, up, args)

\* The status main returns: 1 for every exception it caught
MainStatus(r) == IF r.exc # NoExc THEN 1 ELSE 0

NoCommand ==
    [command |-> "none", sql |-> None, file |-> None, no_fetch |-> FALSE,
     include_system |-> FALSE, catalog |-> {}, table |-> <<>>, path |-> None]

\* The command lines of pgtool that argparse accepts, as far as the
\* sub-command goes
MainCommands ==
    {[NoCommand EXCEPT !.command = "query", !.sql = q, !.file = f, !.no_fetch = nf] :
        q \in {None} \cup Statements, f \in {None, "insert.sql", "missing.sql"},
        nf \in BOOLEAN} \cup
    {[NoCommand EXCEPT !.command = "tables", !.include_system = i, !.catalog = c] :
        i \in BOOLEAN, c \in {{}, Relations}} \cup
    {[NoCommand EXCEPT !.command = "describe", !.table = t] : t \in TableNames} \cup
    {[NoCommand EXCEPT !.command = "export", !.sql = q] : q \in {None, "select", "insert"}} \cup
    {[NoCommand EXCEPT !.command = "script", !.path = f] :
        f \in {"insert.sql", "bad.sql", "missing.sql"}}

\* The connection options of those command lines
MainOptions == {a \in ConfigArgs : a.config = None /\ a.mapping = NoMapping}

\* What one invocation of main did
Main(up, args, r) ==
    ReturnedWith("main", args.command = "query" /\ ~args.no_fetch,
                 IF args.sql # None THEN args.sql
                 ELSE IF args.file \in DOMAIN ScriptFiles THEN ScriptFiles[args.file]
                 ELSE IF args.path \in DOMAIN ScriptFiles THEN ScriptFiles[args.path]
                 ELSE "none",
                 r,
                 [table |-> args.table, include_system |-> args.include_system,
                  catalog |-> args.catalog, command |-> args.command,
                  status |-> MainStatus(r)])

\* pgtool's main, in a process that has done nothing yet
PgtoolMain ==
    /\ ret = NoCall /\ handles = <<>>
    /\ \E up \in BOOLEAN, args \in MainCommands, options \in MainOptions :
          Main(up, args,
               main(Session, up, args,
                    build_config(options, [p \in Paths |-> Missing], NoMapping)))

----------------------------------------------------------------------------
(* src/src/pg_tool/cli.py: run_cli and InteractiveShell.cmdloop *)

\* The table content before the tool is started
InitialTables == {<<>>, <<<<"a", None>>>>}

NotConnected(rows) ==
    [open |-> FALSE, autocommit |-> FALSE, tx |-> "IDLE",
     committed |-> rows, working |-> rows, cursors |-> 0, stale |-> FALSE,
     stmts |-> 0, commits |-> 0, connects |-> 0]

InitCli ==
    /\ db \in {NotConnected(rows) : rows \in InitialTables}
    /\ shell = "Idle"
    /\ exited = FALSE
    /\ exitCode = 0
    /\ exported = NoFile
    /\ last = NoObservation

Init == InitCli /\ InitSession /\ InitConfig /\ InitStream

\* run_cli with the shell command (or none): DatabaseClient(config) connects
\* and cmdloop starts to prompt
RunCliShell ==
    /\ shell = "Idle" /\ ~exited
    /\ \E autocommit \in BOOLEAN :
          db' = DrvConnect(autocommit, db.committed)
    /\ shell' = "AwaitingCommand"
    /\ UNCHANGED <<exited, exitCode, exported, last>>
    /\ UNCHANGED <<sessVars, cfg, stream>>

\* run_cli when psycopg.connect raises: caught by run_cli, status 2
RunCliConnectFails ==
    /\ shell = "Idle" /\ ~exited
    /\ exited' = TRUE
    /\ exitCode' = 2
    /\ last' = [NoObservation EXCEPT !.cmd = "connect", !.raised = PsycopgError,
                                      !.out = "error", !.before = db.committed]
    /\ UNCHANGED <<db, shell, exported>>
    /\ UNCHANGED <<sessVars, cfg, stream>>

\* cmdloop: a blank line
ShellBlank ==
    /\ shell = "AwaitingCommand" /\ ~exited
    /\ last' = [NoObservation EXCEPT !.cmd = "blank", !.before = db.committed]
    /\ UNCHANGED <<db, shell, exited, exitCode, exported>>
    /\ UNCHANGED <<sessVars, cfg, stream>>

\* cmdloop: help
ShellHelp ==
    /\ shell = "AwaitingCommand" /\ ~exited
    /\ last' = [NoObservation EXCEPT !.cmd = "help", !.out = "help", !.before = db.committed]
    /\ UNCHANGED <<db, shell, exited, exitCode, exported>>
    /\ UNCHANGED <<sessVars, cfg, stream>>

\* a cmdloop that goes on prompting after quit, exit, end of input or an
\* interrupt
ShellQuitContinues ==
    /\ shell = "AwaitingCommand" /\ ~exited
    /\ \E how \in {"quit", "exit", "EOFError", "KeyboardInterrupt"} :
          last' = [NoObservation EXCEPT !.cmd = how, !.before = db.committed]
    /\ UNCHANGED <<db, shell, exited, exitCode, exported>>
    /\ UNCHANGED <<sessVars, cfg, stream>>

\* cmdloop: quit, exit, end of input or an interrupt at the prompt; the loop
\* breaks, run_cli returns 0 and the with block closes the client
ShellQuit ==
    /\ shell = "AwaitingCommand" /\ ~exited
    /\ \E how \in {"quit", "exit", "EOFError", "KeyboardInterrupt"} :
          last' = [NoObservation EXCEPT !.cmd = how, !.before = db.committed]
    /\ shell' = "Terminated"
    /\ db' = DatabaseClient_close(db)
    /\ exited' = TRUE
    /\ exitCode' = 0
    /\ UNCHANGED exported
    /\ UNCHANGED <<sessVars, cfg, stream>>

\* cmdloop after handle_command.  An exception that leaves handle_command
\* leaves cmdloop and run_cli too: the with block closes the client and the
\* process ends with a traceback, status 1.
AfterCommand(h) ==
    /\ exported' = h.exported
    /\ IF h.exc = NoExc
       THEN /\ db' = h.db
            /\ UNCHANGED <<shell, exited, exitCode>>
       ELSE /\ db' = DatabaseClient_close(h.db)
            /\ shell' = "Terminated"
            /\ exited' = TRUE
            /\ exitCode' = 1

\* cmdloop after a command with outcome h, and its observation
Dispatched(cmd, args, h) ==
    /\ last' = Observe(cmd, args, db, h)
    /\ AfterCommand(h)

\* cmdloop: any other line goes to handle_command
ShellCommand ==
    /\ shell = "AwaitingCommand" /\ ~exited
    /\ db.cursors < MaxCursors
    /\ \E line \in CommandLines(exported) :
          /\ Len(db.working) + Adds(line[1], line[2]) <= MaxTableRows
          /\ Dispatched(line[1], line[2], handle_command(db, exported, line[1], line[2]))
    /\ UNCHANGED <<sessVars, cfg, stream>>

\* The lines 328-349 of run_cli: one command of the command line
run_cli_command(d, file, cmd, args) ==
    CASE cmd = "tables" -> Called(DatabaseClient_list_tables(d, args[1]), file, "result")
      [] cmd = "describe" -> PrintColumns(DatabaseClient_describe_table(d, args[1]), file)
      [] cmd = "query" -> Called(DatabaseClient_run_query(d, args[1]), file, "result")
      [] cmd = "export" ->
            Exported(DatabaseClient_export_table(d, args[1], file, Writable(args[2])), file)
      [] OTHER -> Called(DatabaseClient_import_csv(d, args[1], args[2], args[3]), file, "result")

\* The status run_cli ends with after a command with outcome b; an exception
\* other than psycopg.Error is not caught and Python exits with status 1
ExitStatus(b) ==
    IF b.exc = PsycopgError THEN 2
    ELSE IF b.exc # NoExc THEN 1
    ELSE IF b.out = "notfound" THEN 1
    ELSE 0

\* The command lines of run_cli other than the shell
OneShotLines ==
    {<<"tables", <<a>>>> : a \in {None, "public", "s"}} \cup
    {<<"describe", <<t>>>> : t \in TableNames} \cup
    {<<"query", <<q>>>> : q \in SqlInputs} \cup
    {<<"export", <<t, p>>>> : t \in TableNames, p \in {"out.csv", "nodir/out.csv"}} \cup
    {<<"export", <<<<"e">>, "out.csv">>>>} \cup
    {<<"import", <<<<"t">>, f, tr>>>> : f \in CsvInputs, tr \in BOOLEAN}

\* The end of run_cli after a command with outcome b: the with block closes
\* the client on every way out
Exit(cmd, args, b) ==
    /\ db' = DatabaseClient_close(b.db)
    /\ exported' = b.exported
    /\ exited' = TRUE
    /\ exitCode' = ExitStatus(b)
    /\ last' = [cmd |-> cmd, raised |-> b.exc,
                exc |-> IF b.exc = PsycopgError THEN NoExc ELSE b.exc,
                out |-> IF b.exc = PsycopgError THEN "error" ELSE b.out,
                dispatched |-> b.dispatched, before |-> db.committed,
                truncate |-> cmd = "import" /\ args[3],
                shape |-> IF cmd = "import" THEN CsvShape(args[2]) ELSE "none",
                table |-> IF cmd \in {"export", "import"}
                          THEN _parse_table_name(args[1]) ELSE NoTable,
                source |-> FALSE,
                name |-> IF cmd = "describe" THEN args[1] ELSE <<>>,
                nargs |-> Len(args), usable |-> TRUE]

\* run_cli with a command other than shell
RunCliCommand ==
    /\ shell = "Idle" /\ ~exited
    /\ \E autocommit \in BOOLEAN, line \in OneShotLines :
          /\ Len(db.working) + Adds(line[1], line[2]) <= MaxTableRows
          /\ Exit(line[1], line[2],
                  run_cli_command(DrvConnect(autocommit, db.committed), exported,
                                  line[1], line[2]))
    /\ UNCHANGED shell
    /\ UNCHANGED <<sessVars, cfg, stream>>

Next ==
    \/ RunCliShell
    \/ RunCliCommand
    \/ RunCliConnectFails
    \/ ShellBlank
    \/ ShellHelp
    \/ ShellQuit
    \/ ShellCommand

Spec == Init /\ [][Next]_vars

SpecSession == Init /\ [][NextSession]_vars

\* One process runs one of the two tools: pg_tool, or pgtool by its main or
\* by the methods of a DatabaseConnection
NextTools ==
    \/ ret = NoCall /\ Next
    \/ shell = "Idle" /\ ~exited /\ ret.op # "main" /\ NextSession
    \/ shell = "Idle" /\ ~exited /\ PgtoolMain

SpecTools == Init /\ [][NextTools]_vars

SpecConfig == Init /\ [][NextConfig]_vars

SpecStream == Init /\ [][NextStream]_vars

----------------------------------------------------------------------------
(* Properties of the shell and of DatabaseClient (specification Spec) *)

\* The last line was typed at the prompt of the shell
InShell == shell # "Idle"

\* C1: in the shell, a query command whose statement raises a database error
\* prints an error line and leaves the shell awaiting the next command, on
\* the connection it had, still open.
C1_QueryErrorKeepsShell ==
    (InShell /\ last.cmd = "query" /\ last.raised = PsycopgError)
        => /\ last.out = "error"
           /\ shell = "AwaitingCommand"
           /\ ~exited
           /\ db.open

C1_Witness ==
    /\ InShell /\ last.cmd = "query" /\ last.raised = PsycopgError
    /\ shell = "AwaitingCommand" /\ db.open

\* The failures of a shell command that the specification names: a database
\* error, and an import whose CSV has no header, an empty header or a record
\* with another field count than the header
SpecifiedFailure ==
    /\ last.raised # NoExc
    /\ \/ last.raised = PsycopgError
       \/ last.cmd = "import" /\ last.shape \in {"no header", "empty header", "field count"}

\* C2: in the shell, a failure of any specified kind raised by a command
\* handler is caught per command: afterwards the shell awaits a command.
C2_FailureNeverEndsLoop ==
    (InShell /\ last.cmd \in {"tables", "describe", "query", "export", "import"}
        /\ SpecifiedFailure)
        => (shell = "AwaitingCommand" /\ ~exited)

\* C3: an import that fails with a database error has committed nothing:
\* no commit was issued and the table holds none of the rows of the file.
C3_FailedImportCommitsNothing ==
    (last.cmd = "import" /\ last.raised = PsycopgError)
        => /\ db.commits = 0
           /\ \/ db.committed = last.before
              \/ last.truncate /\ db.committed = <<>>

\* C4: when an import with truncate fails in the batch insert (here: at its
\* first row, after the truncate ran), the table stays truncated.
C4_TruncateSurvivesFailedInsert ==
    (last.cmd = "import" /\ last.truncate /\ last.shape = "regular"
        /\ last.raised = PsycopgError /\ db.stmts = 2)
        => db.committed = <<>>

\* C5: an import of a CSV without header, with an empty header, or with a
\* record whose field count differs from the header's fails, and none of its
\* rows is committed.
C5_MalformedCsvFails ==
    (last.cmd = "import" /\ last.dispatched
        /\ last.shape \in {"no header", "empty header", "field count"})
        => /\ last.raised # NoExc
           /\ \/ db.committed = last.before
              \/ last.truncate /\ db.committed = <<>>

\* C7: every cursor is released when the operation that acquired it ends,
\* and no statement begins while a cursor of an earlier statement is open.
C7_CursorsScoped ==
    /\ db.open => db.cursors = 0
    /\ ~db.stale

\* C15: at the prompt, a blank line, help and an unknown command name call
\* no method of the client and run no statement: the connection and the
\* export file stay as they were and the shell prompts again, after the
\* catalogue of commands for help and a hint for an unknown name.
C15_NoDispatch ==
    [][(shell = "AwaitingCommand" /\ last'.cmd \in {"blank", "help", "bogus"})
        => /\ shell' = "AwaitingCommand"
           /\ ~exited'
           /\ ~last'.dispatched
           /\ db' \in {db, BeginOp(db)}
           /\ exported' = exported
           /\ last'.out = CASE last'.cmd = "help" -> "help"
                            [] last'.cmd = "bogus" -> "unknown"
                            [] OTHER -> "none"]_vars

C15_Witness ==
    /\ shell = "AwaitingCommand" /\ db.open
    /\ last.cmd = "bogus" /\ last.out = "unknown"

\* C16: quit, exit, end of input and an interrupt at the prompt each take
\* the shell to Terminated in one step, and a terminated shell reads no line
\* and dispatches nothing any more.
C16_QuitTerminates ==
    /\ [][(shell = "AwaitingCommand"
            /\ last'.cmd \in {"quit", "exit", "EOFError", "KeyboardInterrupt"})
            => shell' = "Terminated"]_vars
    /\ [][shell = "Terminated" => UNCHANGED <<shell, last, db, exported>>]_vars

C16_Witness ==
    /\ shell = "Terminated" /\ exited /\ ~db.open
    /\ last.cmd = "EOFError"

\* The rows as csv.writer writes their values
Stringified(rows) == [i \in DOMAIN rows |-> [j \in DOMAIN rows[i] |-> CsvStr(rows[i][j])]]

\* C17: an export whose SELECT gives no column metadata fails; any other
\* export that succeeds leaves a file with the column names and then one
\* record per row of the table, in order.
C17_ExportNoDataFails ==
    (last.cmd = "export" /\ last.dispatched)
        => /\ last.table = EmptyT => last.raised # NoExc
           /\ (last.table = PublicT /\ last.raised = NoExc)
                 => exported = [exists |-> TRUE, lines |-> <<Cols>> \o Stringified(db.working)]

\* C18: in the shell, an export of the table followed by an import of the
\* exported file into the emptied table gives the table the rows it had, up
\* to the text written for NULL.
C18_RoundTrip ==
    [][(/\ shell = "AwaitingCommand"
        /\ last.cmd = "export" /\ last.table = PublicT /\ last.raised = NoExc
        /\ last'.cmd = "import" /\ last'.table = PublicT /\ last'.source /\ last'.truncate
        /\ last'.raised = NoExc)
        => Stringified(db'.working) = Stringified(db.working)]_vars

\* C19: the tool ends with status 0 after a success and with status 1 after
\* an error it caught, and with no other status.
C19_ExitStatus ==
    exited
        => /\ exitCode \in {0, 1}
           /\ last.out = "error" => exitCode = 1
           /\ (last.raised = NoExc /\ last.out # "notfound") => exitCode = 0

----------------------------------------------------------------------------
(* Properties of DatabaseConnection (specification SpecSession) *)

\* C6: run_query with fetch=False on a statement that executes returns no
\* column metadata and no rows, raises nothing, and has committed: the
\* connection is outside any transaction with nothing pending.
C6_NoFetchCommits ==
    (ret.op = "run_query" /\ ~ret.fetch /\ ret.done = 1)
        => /\ ret.exc = NoExc
           /\ ret.val = NoRows
           /\ connection # NoConnection
           /\ handles[connection].tx = "IDLE"
           /\ handles[connection].pending = 0
           /\ ret.stmt = "insert" => srvRows > 0

C6_Witness ==
    /\ ret.op = "run_query" /\ ~ret.fetch /\ ret.done = 1
    /\ ret.stmt = "insert" /\ srvRows > 0

\* The calls that act on a session
ActingOps == {"run_query", "list_tables", "describe_table", "export_to_csv", "execute_script"}

\* C8: a call that acts on a session after close() fails; it executes no
\* statement and establishes no connection.
C8_ClosedSessionRejects ==
    (ret.afterClose /\ ret.op \in ActingOps)
        => /\ ret.exc # NoExc
           /\ ret.executed = 0
           /\ ~ret.connected

C10_OneConnection ==
    /\ Len(handles) <= 1
    /\ Cardinality({i \in DOMAIN handles : handles[i].open}) <= 1

----------------------------------------------------------------------------
(* Properties of the configuration (specification SpecConfig) *)

\* The configuration of a pgtool invocation was built
ConfigBuilt == cfg.tool = "pgtool" /\ cfg.exc = NoExc

\* The sources of a built configuration, in the order of their precedence
Sources == <<cfg.built.file, cfg.built.env, cfg.built.cli>>

\* The sources that set the field f, by their position
SetBy(f) == {i \in DOMAIN Sources : Sources[i][f] # Unset(f)}

\* The largest position of a non-empty set of positions
Last(S) == CHOOSE i \in S : \A j \in S : j <= i

\* C11: every scalar field of the resolved configuration holds the value of
\* the last of file, environment, command line that set it, and is unset
\* when none of them set it.
C11_LastSourceWins ==
    ConfigBuilt =>
        \A f \in ScalarFields :
            cfg.config[f] = IF SetBy(f) = {} THEN Unset(f) ELSE Sources[Last(SetBy(f))][f]

\* The sources whose options hold the key k, by their position
HaveKey(k) == {i \in DOMAIN Sources : k \in DOMAIN Sources[i].options}

\* C12: the merged options hold every key of every source, each with the
\* value of the last source that has the key.
C12_OptionsMergeKeywise ==
    ConfigBuilt =>
        /\ DOMAIN cfg.config.options = UNION {DOMAIN Sources[i].options : i \in DOMAIN Sources}
        /\ \A k \in DOMAIN cfg.config.options :
              cfg.config.options[k] = Sources[Last(HaveKey(k))].options[k]

C12_Witness ==
    /\ ConfigBuilt
    /\ DOMAIN cfg.built.cli.options = {"sslmode"}
    /\ cfg.built.file.options # NoOptions
    /\ cfg.config.options["sslmode"] = "z"
    /\ "application_name" \in DOMAIN cfg.config.options

\* The connect parameters a configuration without dsn gives when exactly the
\* fields of `present` are sent, under the names the driver takes
Discrete(c, present, options) ==
    /\ DOMAIN cfg.kwargs = {KwargName(f) : f \in present} \cup DOMAIN options
    /\ \A f \in present : KwargName(f) \notin DOMAIN options => cfg.kwargs[KwargName(f)] = c[f]
    /\ \A k \in DOMAIN options : cfg.kwargs[k] = options[k]

C14_LoadConfigErrors ==
    cfg.tool = "pgtool" =>
        /\ (cfg.path # None /\ cfg.atPath \in {"missing", "nosection"}) => cfg.loaded # NoExc
        /\ (cfg.path = None /\ cfg.defaults = {"missing"}) =>
              /\ cfg.loaded = NoExc
              /\ cfg.exc = NoExc => cfg.built.file = EmptyConfig

----------------------------------------------------------------------------
(* Properties of iter_query (specification SpecStream) *)

\* The generator runs or has run on a result
Streaming == stream.pc \in {"fetch", "yield", "done", "closed"}

\* C20: for a positive chunk_size, iter_query holds at most chunk_size rows
\* at a time (the chunk fetchmany returned; the rows not fetched yet are the
\* cursor's); the rows it has yielded, the rest of its chunk and the rows
\* left in the cursor are the result in order, each row once; it ends at
\* the first empty batch, with every row yielded.
C20_StreamBatches ==
    Streaming =>
        /\ Len(stream.chunk) <= stream.size
        /\ stream.yielded \o SubSeq(stream.chunk, stream.idx + 1, Len(stream.chunk))
              \o stream.cursorRows = stream.rows
        /\ stream.pc = "done" =>
              /\ stream.yielded = stream.rows
              /\ stream.fetches = ((Len(stream.rows) + stream.size - 1) \div stream.size) + 1

C20_Witness ==
    /\ stream.pc = "done"
    /\ Len(stream.rows) = 3 /\ stream.size = 2
    /\ stream.yielded = stream.rows

(***************************************************************************)
(* Properties of list_tables (SpecSession)                                 *)
(***************************************************************************)

SystemSchemas == {"pg_catalog", "information_schema"}

\* (schema, table) of row x sorts strictly before that of row y
Ascending(x, y) ==
    \/ IndexOf(NameOrder, x[1]) < IndexOf(NameOrder, y[1])
    \/ x[1] = y[1] /\ IndexOf(NameOrder, x[2]) < IndexOf(NameOrder, y[2])

\* C22: on every database content, list_tables(include_system=False) holds
\* no table of pg_catalog or information_schema, list_tables(include_system=
\* True) holds every row of list_tables(include_system=False) on the same
\* content, and both hold base tables only, in ascending (schema, table) order.
C22_ListTables ==
    (ret.op = "list_tables" /\ ret.exc = NoExc) =>
        LET rows == ret.val.rows
            catalog == ret.call.catalog
        IN  /\ ~ret.call.include_system =>
                  \A i \in DOMAIN rows : rows[i][1] \notin SystemSchemas
            /\ ret.call.include_system =>
                  Range(ServerTables(catalog, FALSE)) \subseteq Range(rows)
            /\ \A i \in DOMAIN rows :
                  [schema |-> rows[i][1], name |-> rows[i][2], type |-> "BASE TABLE"] \in catalog
            /\ \A i, j \in DOMAIN rows : i < j => Ascending(rows[i], rows[j])

\* the tables of a database that has system tables, a view and two tables
\* of one schema are listed without the system tables
C22_Witness ==
    /\ ret.op = "list_tables" /\ ret.exc = NoExc
    /\ ~ret.call.include_system
    /\ ret.call.catalog = Relations
    /\ ret.val.rows = <<<<"public", "a">>, <<"public", "b">>>>

(***************************************************************************)
(* Properties of both tools (SpecTools)                                    *)
(***************************************************************************)

\* The describe calls of pgtool: the method, and main with sub-command describe
DescribeCall ==
    \/ ret.op = "describe_table"
    \/ ret.op = "main" /\ ret.call.command = "describe"

\* C21: describe on a table the database does not have raises nothing and
\* returns an empty sequence.  The database has t in schema public and none
\* in schema s: the bare name t and public.t are found, so a bare name is
\* looked up in public, and s.t is not, so a name with a separator is looked
\* up in the schema before it.  (On a connection whose statement executes.)
C21_DescribeMissingTable ==
    /\ (last.cmd = "describe" /\ last.dispatched /\ last.usable) =>
          /\ last.raised = NoExc
          /\ last.name \in {<<"t">>, <<"public", Dot, "t">>} => last.out = "result"
          /\ last.name = <<"s", Dot, "t">> => last.out = "notfound"
    /\ (DescribeCall /\ ret.done = 1) =>
          /\ ret.exc = NoExc
          /\ ret.call.table \in {<<"t">>, <<"public", Dot, "t">>} => Len(ret.val.rows) = Len(Cols)
          /\ ret.call.table = <<"s", Dot, "t">> => ret.val.rows = <<>>

\* the shell described s.t, which does not exist, and goes on
C21_Witness ==
    /\ shell = "AwaitingCommand"
    /\ last.cmd = "describe" /\ last.name = <<"s", Dot, "t">>
    /\ last.raised = NoExc /\ last.out = "notfound"

\* C23: an operation that commits does so only after its statements ran
\* without error: pg_tool's query and import have issued no commit when
\* they raised, and a call on a DatabaseConnection has issued a commit only
\* when every statement it began has completed.
C23_CommitAfterSuccess ==
    /\ (last.cmd \in {"query", "import"} /\ last.raised # NoExc) => db.commits = 0
    /\ ret.exc # NoExc => ret.commits = 0
    /\ ret.commits > 0 => (ret.done = ret.executed /\ ret.done >= 1)

\* execute_script of a statement the server rejects: begun, raised, no commit
C23_Witness ==
    /\ ret.op = "execute_script" /\ ret.stmt = "bad"
    /\ ret.executed = 1 /\ ret.done = 0
    /\ ret.exc = Psycopg2Error /\ ret.commits = 0

\* C24: run_query with fetch=True issues no commit, with or without column
\* metadata; after main ran the query sub-command without --no-fetch the
\* connection is closed and the server table holds no row of the statement.
C24_FetchNeverCommits ==
    /\ (ret.op = "run_query" /\ ret.fetch) => ret.commits = 0
    /\ (ret.op = "main" /\ ret.call.command = "query" /\ ret.fetch) =>
          /\ ret.commits = 0
          /\ srvRows = 0
          /\ connection = NoConnection
          /\ \A i \in DOMAIN handles : ~handles[i].open /\ handles[i].pending = 0

\* main ran an INSERT through query without --no-fetch: status 0, nothing stored
C24_Witness ==
    /\ ret.op = "main" /\ ret.call.command = "query" /\ ret.fetch
    /\ ret.stmt = "insert" /\ ret.done = 1 /\ ret.exc = NoExc
    /\ ret.call.status = 0
    /\ srvRows = 0

\* C25: an invocation that has returned has no open connection: run_cli
\* after a command, after an error and after the shell, and main after its
\* with block.
C25_ClosedAtExit ==
    /\ exited => ~db.open
    /\ ret.op = "main" =>
          /\ connection = NoConnection
          /\ \A i \in DOMAIN handles : ~handles[i].open

\* the shell ended by an exception that handle_command did not catch, on a
\* connection that had been opened
C25_Witness ==
    /\ exited /\ shell = "Terminated" /\ exitCode = 1
    /\ db.connects = 1 /\ ~db.open

(***************************************************************************)
(* Properties of the shell's argument checks and session (Spec)            *)
(***************************************************************************)

\* The last line was a known command with the wrong number of arguments
WrongArguments ==
    \/ last.cmd \in {"describe", "query"} /\ last.nargs = 0
    \/ last.cmd = "export" /\ last.nargs # 2
    \/ last.cmd = "import" /\ last.nargs < 2

\* C26: in the shell, describe or query without arguments, export with
\* other than two and import with fewer than two print the usage line, call
\* no client method, leave the connection and the export file as they were,
\* and the shell awaits the next command.
C26_UsageOnly ==
    [][(shell = "AwaitingCommand" /\ WrongArguments')
          => /\ last'.out = "usage"
             /\ ~last'.dispatched
             /\ last'.raised = NoExc
             /\ db' = BeginOp(db)
             /\ exported' = exported
             /\ shell' = "AwaitingCommand" /\ ~exited']_vars

\* export with three arguments printed the usage line
C26_Witness ==
    /\ shell = "AwaitingCommand"
    /\ last.cmd = "export" /\ last.nargs = 3
    /\ last.out = "usage" /\ ~last.dispatched

\* C27: while the shell prompts, the connection is the one run_cli opened
\* before the first prompt and it is open; the loop has opened no other and
\* closed none by the time it ends.
C27_OneShellSession ==
    /\ shell = "AwaitingCommand" => (db.open /\ db.connects = 1)
    /\ shell = "Terminated" => db.connects = 1

\* a command failed in the shell and the next one finds the same connection
C27_Witness ==
    /\ shell = "AwaitingCommand"
    /\ last.dispatched /\ last.raised = PsycopgError
    /\ db.open /\ db.connects = 1

====
